---------------------------- MODULE Spec2Model ----------------------------
(***************************************************************************)
(* Model of the SQL generator page (Home component): the loaded RowSet,    *)
(* the SQL template, the batch size and the generated tabs, with the       *)
(* expansion handlers generateSqlScript / generateSqlTabs translated from  *)
(* the component's code.                                                   *)
(*                                                                         *)
(* JavaScript strings are sequences of one-character strings, so that the  *)
(* regular expressions and String.prototype.replace calls of the code are  *)
(* computed character by character.                                        *)
(***************************************************************************)
EXTENDS Integers, Sequences, FiniteSets, TLC

(***************************************************************************)
(* Bounds of the model.                                                    *)
(***************************************************************************)
\* the expansion is run with the batch sizes -1..MaxBatchSize and 1000
MaxBatchSize == 3
\* the batch-size input of the page-level specification offers
\* 0..MaxPageBatchSize
MaxPageBatchSize == 2
\* at most MaxReads dropped files are being read at a time
MaxReads == 2

\* useState(1000), part_001 line 53
DefaultBatchSize == 1000

(***************************************************************************)
(* JavaScript string primitives used by the handlers.                      *)
(***************************************************************************)
Whitespace == {" ", "\t", "\n", "\r"}

\* the grave accent character (U+0060), which a TLA+ string cannot hold
GraveAccent == "grave"

UpperCase ==
  <<"A","B","C","D","E","F","G","H","I","J","K","L","M",
    "N","O","P","Q","R","S","T","U","V","W","X","Y","Z">>

LowerCase ==
  <<"a","b","c","d","e","f","g","h","i","j","k","l","m",
    "n","o","p","q","r","s","t","u","v","w","x","y","z">>

LowerChar(c) ==
  IF \E k \in 1..26 : UpperCase[k] = c
  THEN LowerCase[CHOOSE k \in 1..26 : UpperCase[k] = c]
  ELSE c

\* String.prototype.toLowerCase
toLowerCase(s) == [i \in 1..Len(s) |-> LowerChar(s[i])]

\* does p occur in s at (1-based) position i
StartsWithAt(s, p, i) ==
  /\ i >= 1
  /\ i + Len(p) - 1 <= Len(s)
  /\ \A k \in 1..Len(p) : s[i + k - 1] = p[k]

\* String.prototype.indexOf(p, from), 1-based, 0 when p does not occur
indexOfFrom(s, p, from) ==
  LET hits == {i \in from..(Len(s) - Len(p) + 1) : StartsWithAt(s, p, i)}
  IN  IF hits = {} THEN 0 ELSE CHOOSE i \in hits : \A j \in hits : i <= j

indexOf(s, p) == indexOfFrom(s, p, 1)

\* String.prototype.includes
includes(s, p) == indexOf(s, p) # 0

\* !s.trim()
trimIsEmpty(s) == \A i \in 1..Len(s) : s[i] \in Whitespace

\* position of the first character c at or after from, 0 when there is none
FirstCharFrom(s, c, from) ==
  LET hits == {i \in from..Len(s) : s[i] = c}
  IN  IF hits = {} THEN 0 ELSE CHOOSE i \in hits : \A j \in hits : i <= j

\* position of the last character c at or after from, 0 when there is none
LastCharFrom(s, c, from) ==
  LET hits == {i \in from..Len(s) : s[i] = c}
  IN  IF hits = {} THEN 0 ELSE CHOOSE i \in hits : \A j \in hits : i >= j

RECURSIVE Join(_, _)
\* Array.prototype.join
Join(parts, sep) ==
  IF parts = <<>> THEN <<>>
  ELSE IF Len(parts) = 1 THEN parts[1]
  ELSE parts[1] \o sep \o Join(Tail(parts), sep)

RECURSIVE GetSubstitution(_, _, _, _, _)
\* The replacement-pattern expansion of String.prototype.replace for a match
\* without capture groups: $$ is a dollar sign, $& the matched text,
\* $ followed by a grave accent the text before the match, $ followed by an
\* apostrophe the text after it; any other $ is literal.
GetSubstitution(matched, str, position, replacement, i) ==
  IF i > Len(replacement) THEN <<>>
  ELSE IF replacement[i] = "$" /\ i < Len(replacement)
            /\ replacement[i + 1] \in {"$", "&", GraveAccent, "'"}
       THEN (CASE replacement[i + 1] = "$" -> <<"$">>
               [] replacement[i + 1] = "&" -> matched
               [] replacement[i + 1] = GraveAccent -> SubSeq(str, 1, position - 1)
               [] OTHER -> SubSeq(str, position + Len(matched), Len(str)))
            \o GetSubstitution(matched, str, position, replacement, i + 2)
       ELSE <<replacement[i]>>
            \o GetSubstitution(matched, str, position, replacement, i + 1)

\* str.replace(pattern, replacement) with a string pattern: first occurrence
replaceFirst(str, pattern, replacement) ==
  LET at == indexOf(str, pattern)
  IN  IF at = 0 THEN str
      ELSE SubSeq(str, 1, at - 1)
           \o GetSubstitution(pattern, str, at, replacement, 1)
           \o SubSeq(str, at + Len(pattern), Len(str))

RECURSIVE ReplaceAllFrom(_, _, _, _)
\* the text of str from position i on, every occurrence of pattern replaced
ReplaceAllFrom(str, pattern, replacement, i) ==
  LET at == indexOfFrom(str, pattern, i)
  IN  IF at = 0 THEN SubSeq(str, i, Len(str))
      ELSE SubSeq(str, i, at - 1)
           \o GetSubstitution(pattern, str, at, replacement, 1)
           \o ReplaceAllFrom(str, pattern, replacement, at + Len(pattern))

\* str.replace(new RegExp(placeholder.replace(/[{}]/g, '\\$&'), 'g'), r):
\* the expression matches the placeholder text literally (the keys of the
\* templates below hold no regular-expression metacharacter), every
\* occurrence in str is replaced, left to right.
replaceAllPlaceholder(str, placeholder, replacement) ==
  ReplaceAllFrom(str, placeholder, replacement, 1)

\* end of a match of /\{\{([^}]+)\}\}/ starting at i, 0 when there is none
DoubleCurlyEnd(s, i) ==
  IF ~StartsWithAt(s, <<"{", "{">>, i) THEN 0
  ELSE LET j == FirstCharFrom(s, "}", i + 2)
       IN  IF j >= i + 3 /\ j + 1 <= Len(s) /\ s[j + 1] = "}"
           THEN j + 1 ELSE 0

RECURSIVE DoubleCurlyFrom(_, _)
\* the matches at or after position i: the leftmost one, then those after it
DoubleCurlyFrom(s, i) ==
  LET starts == {j \in i..Len(s) : DoubleCurlyEnd(s, j) # 0}
  IN  IF starts = {} THEN <<>>
      ELSE LET j == CHOOSE j \in starts : \A k \in starts : j <= k
               e == DoubleCurlyEnd(s, j)
           IN  <<SubSeq(s, j, e)>> \o DoubleCurlyFrom(s, e + 1)

\* a match that never finds an aggregate token
noDoubleCurlyMatches(template) == <<>>

\* template.match(/\{\{([^}]+)\}\}/g) || []
doubleCurlyMatches(template) == DoubleCurlyFrom(template, 1)

\* end of a match of /\{([^}]+)\}/ starting at i, 0 when there is none
SingleCurlyEnd(s, i) ==
  IF i > Len(s) \/ s[i] # "{" THEN 0
  ELSE LET j == FirstCharFrom(s, "}", i + 1)
       IN  IF j >= i + 2 THEN j ELSE 0

RECURSIVE SingleCurlyFrom(_, _)
\* the matches at or after position i: the leftmost one, then those after it
SingleCurlyFrom(s, i) ==
  LET starts == {j \in i..Len(s) : SingleCurlyEnd(s, j) # 0}
  IN  IF starts = {} THEN <<>>
      ELSE LET j == CHOOSE j \in starts : \A k \in starts : j <= k
               e == SingleCurlyEnd(s, j)
           IN  <<SubSeq(s, j, e)>> \o SingleCurlyFrom(s, e + 1)

\* rowTemplate.match(/\{([^}]+)\}/g) || []
placeholders(rowTemplate) == SingleCurlyFrom(rowTemplate, 1)

RECURSIVE StripDoubleFrom(_, _)
StripDoubleFrom(p, i) ==
  IF i > Len(p) THEN <<>>
  ELSE IF StartsWithAt(p, <<"{", "{">>, i) \/ StartsWithAt(p, <<"}", "}">>, i)
       THEN StripDoubleFrom(p, i + 2)
       ELSE <<p[i]>> \o StripDoubleFrom(p, i + 1)

\* placeholder.replace(/\{\{|\}\}/g, '')
aggregateKey(placeholder) == StripDoubleFrom(placeholder, 1)

IsNotBrace(c) == c \notin {"{", "}"}

\* placeholder.replace(/\{|\}/g, '')
rowKey(placeholder) == SelectSeq(placeholder, IsNotBrace)

Digits == <<"0","1","2","3","4","5","6","7","8","9">>

RECURSIVE NatToText(_)
NatToText(n) ==
  IF n < 10 THEN <<Digits[n + 1]>>
  ELSE NatToText(n \div 10) \o <<Digits[(n % 10) + 1]>>

\* String(n) for an integer n
NumberToString(n) == IF n < 0 THEN <<"-">> \o NatToText(-n) ELSE NatToText(n)


(***************************************************************************)
(* Value model: a value is null, a number, a string, an object (a sequence *)
(* of fields <<key, value>>) or an array (a sequence of values); a key     *)
(* that is not in a row reads as undefined.                                *)
(***************************************************************************)
Null == [t |-> "null", n |-> 0, s |-> <<>>]

Undefined == [t |-> "undefined", n |-> 0, s |-> <<>>]

Num(n) == [t |-> "number", n |-> n, s |-> <<>>]

Str(s) == [t |-> "string", n |-> 0, s |-> s]

Field(key, value) == [key |-> key, value |-> value]

Obj(fields) == [t |-> "object", fields |-> fields]

Arr(items) == [t |-> "array", items |-> items]

\* row[key], for a row that is not null: an object gives the value of its
\* last field of that name, a primitive has none of the column keys
Lookup(row, key) ==
  IF row.t = "object" /\ \E i \in 1..Len(row.fields) : row.fields[i].key = key
  THEN LET at == {i \in 1..Len(row.fields) : row.fields[i].key = key}
       IN  row.fields[CHOOSE i \in at : \A j \in at : j <= i].value
  ELSE Undefined

RECURSIVE DoubleQuotes(_)
\* value.replace(/'/g, "''")
DoubleQuotes(s) ==
  IF s = <<>> THEN <<>>
  ELSE (IF Head(s) = "'" THEN <<"'", "'">> ELSE <<Head(s)>>)
       \o DoubleQuotes(Tail(s))

RECURSIVE StringOf(_)
\* String(value); a number that is not finite carries its name in s
StringOf(value) ==
  CASE value.t = "number" ->
         IF value.s = <<>> THEN NumberToString(value.n) ELSE value.s
    [] value.t = "string" -> value.s
    [] value.t = "null" -> <<"n", "u", "l", "l">>
    [] value.t = "boolean" ->
         IF value.n = 1 THEN <<"t", "r", "u", "e">>
         ELSE <<"f", "a", "l", "s", "e">>
    [] value.t = "object" ->
         <<"[", "o", "b", "j", "e", "c", "t", " ", "O", "b", "j", "e", "c",
           "t", "]">>
    [] value.t = "array" ->
         Join([i \in 1..Len(value.items) |->
                 IF value.items[i].t \in {"null", "undefined"} THEN <<>>
                 ELSE StringOf(value.items[i])], <<",">>)
    [] OTHER -> <<"u", "n", "d", "e", "f", "i", "n", "e", "d">>

\* typeof value === 'string' ? `'${value.replace(/'/g, "''")}'` : String(value)
SqlLiteral(value) ==
  IF value.t = "string"
  THEN <<"'">> \o DoubleQuotes(value.s) \o <<"'">>
  ELSE StringOf(value)

NullText == <<"N", "U", "L", "L">>

(***************************************************************************)
(* Aggregate mode of generateSqlScript: {{key}} tokens.                    *)
(***************************************************************************)
\* jsonData.map(row => row[key])
Column(data, key) == [i \in 1..Len(data) |-> Lookup(data[i], key)]

RECURSIVE UniqueFrom(_, _)
\* .filter((value, index, arr) => value !== null && value !== undefined
\*                                && arr.indexOf(value) === index)
UniqueFrom(arr, index) ==
  IF index > Len(arr) THEN <<>>
  ELSE (IF /\ arr[index] # Null
           /\ arr[index] # Undefined
           /\ \A j \in 1..(index - 1) : arr[j] # arr[index]
        THEN <<arr[index]>> ELSE <<>>)
       \o UniqueFrom(arr, index + 1)

\* the comma-joined literals of the unique non-null values of key
allValues(data, key) ==
  LET unique == UniqueFrom(Column(data, key), 1)
  IN  Join([i \in 1..Len(unique) |-> SqlLiteral(unique[i])], <<",">>)

RECURSIVE ReplaceAggregates(_, _, _)
\* doubleCurlyMatches.forEach(placeholder => { processedTemplate =
\*   processedTemplate.replace(placeholder, allValues.join(',')) })
ReplaceAggregates(processedTemplate, matches, data) ==
  IF matches = <<>> THEN processedTemplate
  ELSE ReplaceAggregates(
         replaceFirst(processedTemplate, Head(matches),
                      allValues(data, aggregateKey(Head(matches)))),
         Tail(matches), data)

IsPresent(value) == value # Null /\ value # Undefined

\* doubleCurlyMatches.some(placeholder => jsonData.some(row => non-null))
hasNonNullValues(matches, data) ==
  \E m \in 1..Len(matches) :
    \E i \in 1..Len(data) :
      IsPresent(Lookup(data[i], aggregateKey(matches[m])))

\* the script of the "Without NULL values" tab of aggregate mode
withoutNullTemplate(template, matches, data) ==
  ReplaceAggregates(template, matches, data)

\* jsonData.filter(row => doubleCurlyMatches.every(non-null)).length
withoutNullRowCount(matches, data) ==
  Cardinality({i \in 1..Len(data) :
                 \A m \in 1..Len(matches) :
                   IsPresent(Lookup(data[i], aggregateKey(matches[m])))})

Tab(type, batchNumber, script, rowCount) ==
  [type |-> type, batchNumber |-> batchNumber,
   script |-> script, rowCount |-> rowCount]

\* the tabs built by the aggregate branch of generateSqlScript
aggregateTabs(template, data) ==
  LET matches == doubleCurlyMatches(template)
  IN  <<Tab("all", 0, ReplaceAggregates(template, matches, data), Len(data))>>
      \o (IF hasNonNullValues(matches, data)
          THEN <<Tab("without-null", 0,
                     withoutNullTemplate(template, matches, data),
                     withoutNullRowCount(matches, data))>>
          ELSE <<>>)

(***************************************************************************)
(* Per-row mode: generateSqlTabs.                                          *)
(***************************************************************************)
ValuesWord == <<"v", "a", "l", "u", "e", "s">>

InsertIntoWords == <<"i", "n", "s", "e", "r", "t", " ", "i", "n", "t", "o">>

ValuesNewline == <<"V", "A", "L", "U", "E", "S", "\n">>

\* first position at or after i that holds no whitespace (\s*)
SkipWhitespace(s, i) ==
  LET rest == {j \in i..Len(s) : s[j] \notin Whitespace}
  IN  IF rest = {} THEN Len(s) + 1
      ELSE CHOOSE j \in rest : \A k \in rest : j <= k

\* can /VALUES\s*\((.*)\)/is match with VALUES at position i of s, whose
\* lower-case form is lower
ValuesMatchAt(s, lower, i) ==
  /\ StartsWithAt(lower, ValuesWord, i)
  /\ LET open == SkipWhitespace(s, i + 6)
     IN  /\ open <= Len(s)
         /\ s[open] = "("
         /\ LastCharFrom(s, ")", open + 1) # 0

NoMatch == [found |-> FALSE, index |-> 0, group |-> <<>>]

\* a match that never finds the VALUES clause
valuesMatchNever(s) == NoMatch

\* processedTemplate.match(/VALUES\s*\((.*)\)/is): the leftmost VALUES that
\* is followed by a parenthesis; the greedy group runs to the last ")".
\* index is the 1-based position of the match, group is valuesMatch[1].
valuesMatch(s) ==
  LET lower == toLowerCase(s)
      starts == {i \in 1..Len(s) : ValuesMatchAt(s, lower, i)}
  IN  IF starts = {} THEN NoMatch
      ELSE LET index == CHOOSE i \in starts : \A j \in starts : i <= j
               open == SkipWhitespace(s, index + 6)
               close == LastCharFrom(s, ")", open + 1)
           IN  [found |-> TRUE, index |-> index,
                group |-> SubSeq(s, open + 1, close - 1)]

\* the text put in place of a placeholder in the ALL, batch and freeform
\* rows: only undefined becomes NULL, a string is quoted, anything else
\* (null included) goes through String()
replacementValue(value) ==
  IF value = Undefined THEN NullText ELSE SqlLiteral(value)

\* the text put in place of a placeholder in the null-split rows: undefined
\* and null both become NULL
replacementValueSplit(value) ==
  IF value = Undefined \/ value = Null THEN NullText ELSE SqlLiteral(value)

RECURSIVE ProcessRowFrom(_, _, _)
\* placeholders.forEach(placeholder => { processedRow = processedRow.replace(
\*   new RegExp(..., 'g'), String(replacementValue)) })
ProcessRowFrom(processedRow, found, row) ==
  IF found = <<>> THEN processedRow
  ELSE ProcessRowFrom(
         replaceAllPlaceholder(processedRow, Head(found),
           replacementValue(Lookup(row, rowKey(Head(found))))),
         Tail(found), row)

\* one row of the ALL script, of a batch script or of the freeform script
processRow(rowTemplate, row) ==
  ProcessRowFrom(rowTemplate, placeholders(rowTemplate), row)

RECURSIVE ProcessSplitRowFrom(_, _, _)
ProcessSplitRowFrom(processedRow, found, row) ==
  IF found = <<>> THEN processedRow
  ELSE ProcessSplitRowFrom(
         replaceAllPlaceholder(processedRow, Head(found),
           replacementValueSplit(Lookup(row, rowKey(Head(found))))),
         Tail(found), row)

\* one row of the null-split scripts
processSplitRow(rowTemplate, row) ==
  ProcessSplitRowFrom(rowTemplate, placeholders(rowTemplate), row)

\* a null-split test that, like the ALL rows, looks for undefined only
hasNullUndefinedOnly(rowTemplate, row) ==
  LET found == placeholders(rowTemplate)
  IN  \E p \in 1..Len(found) : Lookup(row, rowKey(found[p])) = Undefined

\* hasNull of the null-split loop
hasNull(rowTemplate, row) ==
  LET found == placeholders(rowTemplate)
  IN  \E p \in 1..Len(found) :
        LET value == Lookup(row, rowKey(found[p]))
        IN  value = Undefined \/ value = Null

Parenthesized(text) == <<"(">> \o text \o <<")">>

CommaNewline == <<",", "\n">>

\* data.map(row => `(${processedRow})`).join(",\n")
allValueRows(rowTemplate, data) ==
  Join([i \in 1..Len(data) |-> Parenthesized(processRow(rowTemplate, data[i]))],
       CommaNewline)

RECURSIVE SplitRows(_, _, _, _)
\* rowsWithoutNull (wantNull = FALSE) and rowsWithNull (wantNull = TRUE)
SplitRows(rowTemplate, data, wantNull, i) ==
  IF i > Len(data) THEN <<>>
  ELSE (IF hasNull(rowTemplate, data[i]) = wantNull
        THEN <<Parenthesized(processSplitRow(rowTemplate, data[i]))>>
        ELSE <<>>)
       \o SplitRows(rowTemplate, data, wantNull, i + 1)

rowsWithoutNull(rowTemplate, data) == SplitRows(rowTemplate, data, FALSE, 1)

rowsWithNull(rowTemplate, data) == SplitRows(rowTemplate, data, TRUE, 1)

\* a slice whose end is one row short
sliceOneShort(data, i, size) ==
  SubSeq(data, i + 1,
         IF i + size - 1 < Len(data) THEN i + size - 1 ELSE Len(data))

\* jsonData.slice(i, i + size) for 0 <= i and 1 <= size, i counted from 0
slice(data, i, size) ==
  SubSeq(data, i + 1, IF i + size < Len(data) THEN i + size ELSE Len(data))

RECURSIVE BatchTabsFrom(_, _, _, _, _)
\* for (let i = 0; i < jsonData.length; i += batchSize) { ... }, entered
\* with batchSize >= 1
BatchTabsFrom(insertStatement, rowTemplate, data, size, i) ==
  IF ~(i < Len(data)) THEN <<>>
  ELSE LET batchData == slice(data, i, size)
           batchNumber == (i \div size) + 1
           batchValueRows == allValueRows(rowTemplate, batchData)
       IN  (IF batchValueRows # <<>>
            THEN <<Tab("batch", batchNumber,
                       insertStatement \o batchValueRows, Len(batchData))>>
            ELSE <<>>)
           \o BatchTabsFrom(insertStatement, rowTemplate, data, size, i + size)

\* the batch tabs: none unless batchSize < jsonData.length
batchTabs(insertStatement, rowTemplate, data, size) ==
  IF size < Len(data)
  THEN BatchTabsFrom(insertStatement, rowTemplate, data, size, 0)
  ELSE <<>>

\* the batch loop never ends when it is entered with a step that is not
\* positive: i stays below jsonData.length for ever
batchLoopDiverges(data, size) == size < Len(data) /\ size <= 0

\* processedTemplate.substring(0, valuesMatch.index) + "VALUES\n", or
\* "VALUES\n" alone for a standalone VALUES statement
insertStatement(processedTemplate, index) ==
  IF includes(toLowerCase(processedTemplate), InsertIntoWords)
  THEN SubSeq(processedTemplate, 1, index - 1) \o ValuesNewline
  ELSE ValuesNewline

\* the tabs of the VALUES branch with the two null-split tabs pushed in the
\* other order
valuesTabsWithNullFirst(prefix, rowTemplate, data, size) ==
  LET without == rowsWithoutNull(rowTemplate, data)
      with == rowsWithNull(rowTemplate, data)
  IN  <<Tab("all", 0, prefix \o allValueRows(rowTemplate, data), Len(data))>>
      \o (IF Len(with) > 0
          THEN <<Tab("with-null", 0,
                     prefix \o Join(with, CommaNewline), Len(with))>>
          ELSE <<>>)
      \o (IF Len(without) > 0
          THEN <<Tab("without-null", 0,
                     prefix \o Join(without, CommaNewline), Len(without))>>
          ELSE <<>>)
      \o batchTabs(prefix, rowTemplate, data, size)

\* the tabs of the VALUES branch
valuesTabs(prefix, rowTemplate, data, size) ==
  LET without == rowsWithoutNull(rowTemplate, data)
      with == rowsWithNull(rowTemplate, data)
  IN  <<Tab("all", 0, prefix \o allValueRows(rowTemplate, data), Len(data))>>
      \o (IF Len(without) > 0
          THEN <<Tab("without-null", 0,
                     prefix \o Join(without, CommaNewline), Len(without))>>
          ELSE <<>>)
      \o (IF Len(with) > 0
          THEN <<Tab("with-null", 0,
                     prefix \o Join(with, CommaNewline), Len(with))>>
          ELSE <<>>)
      \o batchTabs(prefix, rowTemplate, data, size)

\* the single tab of the branch for templates without the word "values"
singleScript(processedTemplate, data) ==
  Join([i \in 1..Len(data) |-> processRow(processedTemplate, data[i])],
       <<"\n">>)

CouldNotFindValues ==
  "Invalid SQL template. Could not find a 'VALUES (...)' clause."

\* row[key] throws a TypeError when the row is null
HasNullRow(data) == \E i \in 1..Len(data) : data[i] = Null

\* generateSqlTabs(processedTemplate) run on jsonData = data with the batch
\* size of its closure: "error" (setErrors and return), "throw" (a row is
\* null and a placeholder is looked up in it), "loop" (the batch loop does
\* not end) or "tabs" (setSqlTabs)
generateSqlTabs(processedTemplate, data, size) ==
  IF includes(toLowerCase(processedTemplate), ValuesWord)
  THEN LET m == valuesMatch(processedTemplate)
       IN  IF ~m.found \/ m.group = <<>>
           THEN [kind |-> "error", tabs |-> <<>>]
           ELSE IF HasNullRow(data) /\ placeholders(m.group) # <<>>
           THEN [kind |-> "throw", tabs |-> <<>>]
           ELSE IF batchLoopDiverges(data, size)
           THEN [kind |-> "loop", tabs |-> <<>>]
           ELSE [kind |-> "tabs",
                 tabs |-> valuesTabs(
                            insertStatement(processedTemplate, m.index),
                            m.group, data, size)]
  ELSE IF HasNullRow(data) /\ placeholders(processedTemplate) # <<>>
  THEN [kind |-> "throw", tabs |-> <<>>]
  ELSE [kind |-> "tabs",
        tabs |-> <<Tab("all", 0, singleScript(processedTemplate, data),
                       Len(data))>>]

(***************************************************************************)
(* Inputs: the templates a user types (or that are restored on mount) and  *)
(* the row sets a load produces.                                           *)
(***************************************************************************)
\* the template set on mount when none is saved
DefaultTemplate ==
  <<"I","N","S","E","R","T"," ","I","N","T","O"," ","[","d","b","o","]",".",
    "[","R","e","s","C","o","l","l","e","c","t","i","o","n","P","o","i",
    "n","t","s","M","a","p","p","i","n","g","]"," ","(","T","e","n","b",
    "i","s","R","e","s","t","a","u","r","a","n","t","I","d",","," ","C",
    "o","l","l","e","c","t","i","o","n","P","o","i","n","t","I","d",",",
    " ","C","r","e","a","t","e","d",","," ","U","p","d","a","t","e","d",
    ")","\n","V","A","L","U","E","S","\n","(","{","c","o","r","p","o","r",
    "a","t","e","I","d","e","n","t","i","f","i","e","r","}",",","{","i",
    "d","}",",","G","E","T","D","A","T","E","(",")",",","G","E","T","D",
    "A","T","E","(",")",")",";">>

\* INSERT INTO t (id,name) VALUES ({id},{name});
TplInsert ==
  <<"I","N","S","E","R","T"," ","I","N","T","O"," ","t"," ","(","i","d",",",
    "n","a","m","e",")"," ","V","A","L","U","E","S"," ","(","{","i","d",
    "}",",","{","n","a","m","e","}",")",";">>

\* values ({id}) -- a standalone VALUES statement, lower case
TplValuesOnly ==
  <<"v","a","l","u","e","s"," ","(","{","i","d","}",")">>

\* UPDATE t SET n={name} WHERE id={id}; -- no VALUES at all
TplFreeform ==
  <<"U","P","D","A","T","E"," ","t"," ","S","E","T"," ","n","=","{","n","a",
    "m","e","}"," ","W","H","E","R","E"," ","i","d","=","{","i","d","}",
    ";">>

\* WHERE id IN ({{id}})
TplAggregate ==
  <<"W","H","E","R","E"," ","i","d"," ","I","N"," ","(","{","{","i","d","}",
    "}",")">>

\* WHERE a IN ({{a}}) AND b IN ({{b}})
TplAggregateTwo ==
  <<"W","H","E","R","E"," ","a"," ","I","N"," ","(","{","{","a","}","}",")",
    " ","A","N","D"," ","b"," ","I","N"," ","(","{","{","b","}","}",")">>

\* SET n={name} WHERE id IN ({{id}}) -- {{id}} after a per-row token
TplMixed ==
  <<"S","E","T"," ","n","=","{","n","a","m","e","}"," ","W","H","E","R","E",
    " ","i","d"," ","I","N"," ","(","{","{","i","d","}","}",")">>

\* SELECT {id} AS values -- the word without a parenthesis
TplNoClause ==
  <<"S","E","L","E","C","T"," ","{","i","d","}"," ","A","S"," ","v","a","l",
    "u","e","s">>

\* INSERT INTO t -- no VALUES
TplInsertOnly ==
  <<"I","N","S","E","R","T"," ","I","N","T","O"," ","t">>

\* a space and a newline
TplBlank ==
  <<" ","\n">>

\* INSERT INTO values_t -- the word VALUES without a parenthesis
TplValuesNoParen ==
  <<"I","N","S","E","R","T"," ","I","N","T","O"," ","v","a","l","u","e","s",
    "_","t">>

\* INSERT INTO t {{id}} -- an aggregate token and no VALUES
TplAggregateInsert ==
  <<"I","N","S","E","R","T"," ","I","N","T","O"," ","t"," ","{","{","i","d",
    "}","}">>

Templates ==
  {DefaultTemplate, TplInsert, TplValuesOnly, TplFreeform, TplAggregate,
   TplAggregateTwo, TplMixed, TplNoClause, TplInsertOnly, TplBlank,
   TplValuesNoParen, TplAggregateInsert}

Key_id == <<"i","d">>

Key_name == <<"n","a","m","e">>

Key_a == <<"a">>

Key_b == <<"b">>

\* [{id:1,name:'A'},{id:2,name:null}]
DataScenario ==
  <<Obj(<<Field(Key_id, Num(1)), Field(Key_name, Str(<<"A">>))>>),
    Obj(<<Field(Key_id, Num(2)), Field(Key_name, Null)>>)>>

\* [{id:1},{id:2},{id:1}]
DataDup ==
  <<Obj(<<Field(Key_id, Num(1))>>),
    Obj(<<Field(Key_id, Num(2))>>),
    Obj(<<Field(Key_id, Num(1))>>)>>

\* five rows: a null, a missing key, a quote in a string, a repeated id
DataFive ==
  <<Obj(<<Field(Key_id, Num(1)), Field(Key_name, Str(<<"A">>))>>),
    Obj(<<Field(Key_id, Num(2)), Field(Key_name, Null)>>),
    Obj(<<Field(Key_id, Num(3))>>),
    Obj(<<Field(Key_id, Num(12)), Field(Key_name, Str(<<"O","'","B","r","i","e","n">>))>>),
    Obj(<<Field(Key_id, Num(1)), Field(Key_name, Str(<<"B">>))>>)>>

\* strings that hold placeholder text and $ replacement patterns
DataInject ==
  <<Obj(<<Field(Key_id, Str(<<"{","n","a","m","e","}">>)), Field(Key_name, Str(<<"B">>))>>),
    Obj(<<Field(Key_id, Str(<<"$","&">>)), Field(Key_name, Str(<<"c","$","$","d">>))>>),
    Obj(<<Field(Key_id, Str(<<"x","$","'">>)), Field(Key_name, Str(<<"{","i","d","}">>))>>)>>

\* b is null in every row
DataABNull ==
  <<Obj(<<Field(Key_a, Num(1)), Field(Key_b, Null)>>),
    Obj(<<Field(Key_a, Num(2)), Field(Key_b, Null)>>)>>

\* a = 1 occurs only in a row whose b is null
DataABPart ==
  <<Obj(<<Field(Key_a, Num(1)), Field(Key_b, Null)>>),
    Obj(<<Field(Key_a, Num(2)), Field(Key_b, Num(3))>>),
    Obj(<<Field(Key_a, Num(2)), Field(Key_b, Str(<<"x">>))>>)>>

\* no null and no missing key
DataClean ==
  <<Obj(<<Field(Key_id, Num(7)), Field(Key_name, Str(<<"J","a","n","e">>))>>),
    Obj(<<Field(Key_id, Num(8)), Field(Key_name, Str(<<"O","'","B","r","i","e","n">>))>>)>>

DataSets ==
  {DataScenario, DataDup, DataFive, DataInject, DataABNull, DataABPart,
   DataClean}


(***************************************************************************)
(* The parsers: JSON.parse, parseCSV, parseTSV and parseDataText.  A       *)
(* parser returns [threw, data]; data is the parsed value.                 *)
(*                                                                         *)
(* Number() and JSON.parse are modelled for texts that hold integers       *)
(* without fraction or exponent, the word Infinity, and strings without    *)
(* escape sequences.                                                       *)
(***************************************************************************)
Threw == [threw |-> TRUE, data |-> Null]

Returned(data) == [threw |-> FALSE, data |-> data]

True == [t |-> "boolean", n |-> 1, s |-> <<>>]

False == [t |-> "boolean", n |-> 0, s |-> <<>>]

NaN == [t |-> "number", n |-> 0, s |-> <<"N","a","N">>]

InfinityWord == <<"I","n","f","i","n","i","t","y">>

Infinity == [t |-> "number", n |-> 0, s |-> InfinityWord]

MinusInfinity == [t |-> "number", n |-> 0, s |-> <<"-">> \o InfinityWord]

\* String.prototype.trim
trim(s) ==
  LET keep == {i \in 1..Len(s) : s[i] \notin Whitespace}
  IN  IF keep = {} THEN <<>>
      ELSE SubSeq(s, CHOOSE i \in keep : \A j \in keep : i <= j,
                     CHOOSE i \in keep : \A j \in keep : i >= j)

RECURSIVE SplitFrom(_, _, _)
SplitFrom(s, separator, i) ==
  LET j == FirstCharFrom(s, separator, i)
  IN  IF j = 0 THEN <<SubSeq(s, i, Len(s))>>
      ELSE <<SubSeq(s, i, j - 1)>> \o SplitFrom(s, separator, j + 1)

\* String.prototype.split on a one-character separator
split(s, separator) == SplitFrom(s, separator, 1)

IsDigit(c) == \E k \in 1..10 : Digits[k] = c

DigitValue(c) == (CHOOSE k \in 1..10 : Digits[k] = c) - 1

RECURSIVE DigitsValue(_)
DigitsValue(s) ==
  IF s = <<>> THEN 0
  ELSE 10 * DigitsValue(SubSeq(s, 1, Len(s) - 1)) + DigitValue(s[Len(s)])

IsDigits(s) == s # <<>> /\ \A i \in 1..Len(s) : IsDigit(s[i])

\* Number(value): the text is trimmed; the empty text is 0
Number(value) ==
  LET text == trim(value)
      signed == text # <<>> /\ text[1] \in {"+", "-"}
      body == IF signed THEN Tail(text) ELSE text
      minus == signed /\ text[1] = "-"
  IN  IF text = <<>> THEN Num(0)
      ELSE IF IsDigits(body)
      THEN Num(IF minus THEN 0 - DigitsValue(body) ELSE DigitsValue(body))
      ELSE IF body = InfinityWord
      THEN (IF minus THEN MinusInfinity ELSE Infinity)
      ELSE NaN

isNaN(num) == num = NaN

\* row[key] = value
SetField(fields, key, value) ==
  IF \E i \in 1..Len(fields) : fields[i].key = key
  THEN [i \in 1..Len(fields) |->
          IF fields[i].key = key THEN Field(key, value) ELSE fields[i]]
  ELSE Append(fields, Field(key, value))

JsonFail == [ok |-> FALSE, value |-> Null, next |-> 0]

JsonOk(value, next) == [ok |-> TRUE, value |-> value, next |-> next]

\* a JSON string starting at the quote at position i
JsonString(s, i) ==
  LET close == FirstCharFrom(s, "\"", i + 1)
  IN  IF close = 0
         \/ \E k \in (i + 1)..(close - 1) : s[k] \in {"\\", "\n", "\r", "\t"}
      THEN JsonFail
      ELSE JsonOk(Str(SubSeq(s, i + 1, close - 1)), close + 1)

\* a JSON number starting at position i: -?(0|[1-9][0-9]*)
JsonNumber(s, i) ==
  LET from == IF s[i] = "-" THEN i + 1 ELSE i
      rest == {k \in from..Len(s) : ~IsDigit(s[k])}
      end == IF rest = {} THEN Len(s)
             ELSE (CHOOSE k \in rest : \A j \in rest : k <= j) - 1
      digits == SubSeq(s, from, end)
  IN  IF digits = <<>> \/ (Len(digits) > 1 /\ digits[1] = "0")
      THEN JsonFail
      ELSE JsonOk(Num(IF s[i] = "-" THEN 0 - DigitsValue(digits)
                      ELSE DigitsValue(digits)), end + 1)

RECURSIVE JsonValue(_, _), JsonElements(_, _, _), JsonMembers(_, _, _)
\* the JSON value that starts at or after position i
JsonValue(s, i) ==
  LET j == SkipWhitespace(s, i)
  IN  IF j > Len(s) THEN JsonFail
      ELSE IF StartsWithAt(s, <<"n","u","l","l">>, j) THEN JsonOk(Null, j + 4)
      ELSE IF StartsWithAt(s, <<"t","r","u","e">>, j) THEN JsonOk(True, j + 4)
      ELSE IF StartsWithAt(s, <<"f","a","l","s","e">>, j)
      THEN JsonOk(False, j + 5)
      ELSE IF s[j] = "\"" THEN JsonString(s, j)
      ELSE IF s[j] = "["
      THEN LET k == SkipWhitespace(s, j + 1)
           IN  IF k <= Len(s) /\ s[k] = "]" THEN JsonOk(Arr(<<>>), k + 1)
               ELSE JsonElements(s, j + 1, <<>>)
      ELSE IF s[j] = "{"
      THEN LET k == SkipWhitespace(s, j + 1)
           IN  IF k <= Len(s) /\ s[k] = "}" THEN JsonOk(Obj(<<>>), k + 1)
               ELSE JsonMembers(s, j + 1, <<>>)
      ELSE IF s[j] = "-" \/ IsDigit(s[j]) THEN JsonNumber(s, j)
      ELSE JsonFail

\* the elements of an array from position i on, items being those before
JsonElements(s, i, items) ==
  LET element == JsonValue(s, i)
      k == SkipWhitespace(s, element.next)
  IN  IF ~element.ok \/ k > Len(s) THEN JsonFail
      ELSE IF s[k] = ","
      THEN JsonElements(s, k + 1, Append(items, element.value))
      ELSE IF s[k] = "]"
      THEN JsonOk(Arr(Append(items, element.value)), k + 1)
      ELSE JsonFail

\* the members of an object from position i on, fields being those before
JsonMembers(s, i, fields) ==
  LET j == SkipWhitespace(s, i)
      key == IF j <= Len(s) /\ s[j] = "\"" THEN JsonString(s, j) ELSE JsonFail
      colon == SkipWhitespace(s, key.next)
      member == IF key.ok /\ colon <= Len(s) /\ s[colon] = ":"
                THEN JsonValue(s, colon + 1) ELSE JsonFail
      k == SkipWhitespace(s, member.next)
  IN  IF ~member.ok \/ k > Len(s) THEN JsonFail
      ELSE IF s[k] = ","
      THEN JsonMembers(s, k + 1, SetField(fields, key.value.s, member.value))
      ELSE IF s[k] = "}"
      THEN JsonOk(Obj(SetField(fields, key.value.s, member.value)), k + 1)
      ELSE JsonFail

\* JSON.parse(text)
JSONparse(text) ==
  LET result == JsonValue(text, 1)
  IN  IF result.ok /\ SkipWhitespace(text, result.next) > Len(text)
      THEN Returned(result.value)
      ELSE Threw

RECURSIVE CsvLineFrom(_, _, _, _)
\* the loop of parseCsvLine from position i on
CsvLineFrom(line, i, current, inQuotes) ==
  IF i > Len(line) THEN <<trim(current)>>
  ELSE IF line[i] = "\"" THEN CsvLineFrom(line, i + 1, current, ~inQuotes)
  ELSE IF line[i] = "," /\ ~inQuotes
  THEN <<trim(current)>> \o CsvLineFrom(line, i + 1, <<>>, inQuotes)
  ELSE CsvLineFrom(line, i + 1, Append(current, line[i]), inQuotes)

parseCsvLine(line) == CsvLineFrom(line, 1, <<>>, FALSE)

IsNotQuote(c) == c \notin {"\"", "'"}

\* header.replace(/["']/g, '')
removeQuotes(header) == SelectSeq(header, IsNotQuote)

\* value.replace(/^["']|["']$/g, '')
removeSurroundingQuotes(value) ==
  LET headless == IF value # <<>> /\ ~IsNotQuote(value[1])
                  THEN Tail(value) ELSE value
  IN  IF headless # <<>> /\ ~IsNotQuote(headless[Len(headless)])
      THEN SubSeq(headless, 1, Len(headless) - 1)
      ELSE headless

\* the conversion of a token: null, a number, or the text
convertValue(value) ==
  IF value = <<>> \/ toLowerCase(value) = <<"n","u","l","l">> THEN Null
  ELSE LET num == Number(value)
       IN  IF ~isNaN(num) /\ value # <<>> THEN num ELSE Str(value)

csvValue(token) == convertValue(removeSurroundingQuotes(token))

tsvValue(token) == convertValue(trim(token))

RECURSIVE RowFrom(_, _, _, _)
\* headers.forEach((header, index) => { row[header] = values[index] })
RowFrom(headers, values, index, fields) ==
  IF index > Len(headers) THEN Obj(fields)
  ELSE RowFrom(headers, values, index + 1,
               SetField(fields, headers[index], values[index]))

RECURSIVE CsvRowsFrom(_, _, _)
\* the loop of parseCSV over the data lines from line i on
CsvRowsFrom(lines, headers, i) ==
  IF i > Len(lines) THEN <<>>
  ELSE LET line == trim(lines[i])
           tokens == parseCsvLine(line)
           values == [v \in 1..Len(tokens) |-> csvValue(tokens[v])]
       IN  (IF line # <<>> /\ Len(values) = Len(headers)
            THEN <<RowFrom(headers, values, 1, <<>>)>> ELSE <<>>)
           \o CsvRowsFrom(lines, headers, i + 1)

parseCSV(csvText) ==
  LET lines == split(trim(csvText), "\n")
      tokens == parseCsvLine(lines[1])
      headers == [h \in 1..Len(tokens) |-> removeQuotes(tokens[h])]
  IN  IF Len(lines) < 2 THEN Threw
      ELSE Returned(Arr(CsvRowsFrom(lines, headers, 2)))

RECURSIVE TsvRowsFrom(_, _, _)
\* the loop of parseTSV over the data lines from line i on
TsvRowsFrom(lines, headers, i) ==
  IF i > Len(lines) THEN <<>>
  ELSE LET line == trim(lines[i])
           tokens == split(line, "\t")
           values == [v \in 1..Len(tokens) |-> tsvValue(tokens[v])]
       IN  (IF line # <<>> /\ Len(values) = Len(headers)
            THEN <<RowFrom(headers, values, 1, <<>>)>> ELSE <<>>)
           \o TsvRowsFrom(lines, headers, i + 1)

parseTSV(tsvText) ==
  LET lines == split(trim(tsvText), "\n")
      tokens == split(lines[1], "\t")
      headers == [h \in 1..Len(tokens) |-> trim(tokens[h])]
  IN  IF Len(lines) < 2 THEN Threw
      ELSE Returned(Arr(TsvRowsFrom(lines, headers, 2)))

\* parseDataText: JSON first, then TSV when the text holds a tab, else CSV
parseDataText(text) ==
  LET json == JSONparse(text)
  IN  IF ~json.threw
      THEN Returned(IF json.data.t = "array" THEN json.data
                    ELSE Arr(<<json.data>>))
      ELSE IF includes(text, <<"\t">>) THEN parseTSV(text)
      ELSE parseCSV(text)

\* file.name.toLowerCase().endsWith(extension)
HasExtension(name, extension) ==
  /\ Len(name) >= Len(extension)
  /\ StartsWithAt(toLowerCase(name), extension, Len(name) - Len(extension) + 1)

\* the JSON branch of reader.onload: data.collectPoints throws for null
parseJsonFile(text) ==
  LET json == JSONparse(text)
      collectPoints == Lookup(json.data, <<"c","o","l","l","e","c","t",
                                           "P","o","i","n","t","s">>)
  IN  IF json.threw \/ json.data = Null THEN Threw
      ELSE IF collectPoints.t = "array" THEN Returned(collectPoints)
      ELSE json

\* a dispatch on the text alone, whatever the file is called
parseFileByContent(name, text) == parseDataText(text)

\* the parse of a dropped file's text in reader.onload
parseFile(name, text) ==
  IF HasExtension(name, <<".","c","s","v">>) THEN parseCSV(text)
  ELSE IF HasExtension(name, <<".","t","s","v">>)
          \/ HasExtension(name, <<".","t","x","t">>)
  THEN parseTSV(text)
  ELSE parseJsonFile(text)

(***************************************************************************)
(* validateJson and validateSqlTemplate.                                   *)
(***************************************************************************)
\* a validator that only asks for an array
validateJsonArrayOnly(data) ==
  IF data.t # "array" THEN <<"JSON must be an array of objects">> ELSE <<>>

\* validateJson(data)
validateJson(data) ==
  IF data.t # "array" THEN <<"JSON must be an array of objects">>
  ELSE IF Len(data.items) = 0 THEN <<"JSON array cannot be empty">>
  ELSE IF data.items[1].t \notin {"object", "array"}
  THEN <<"Array elements must be objects">>
  ELSE <<>>

\* a validator that accepts every template
acceptEveryTemplate(template) == <<>>

validateSqlTemplate(template) ==
  IF trimIsEmpty(template) THEN <<"SQL template cannot be empty">>
  ELSE IF Len(doubleCurlyMatches(template)) > 0 THEN <<>>
  ELSE LET lower == toLowerCase(template)
       IN  (IF includes(lower, InsertIntoWords) /\ ~includes(lower, ValuesWord)
            THEN <<"INSERT statements must contain 'VALUES' clause">>
            ELSE <<>>)
           \o (IF includes(lower, InsertIntoWords)
                  /\ ~valuesMatch(template).found
               THEN <<"Invalid VALUES clause format. Use: VALUES ({placeholder})">>
               ELSE <<>>)

(***************************************************************************)
(* Texts that are pasted or dropped as files.                              *)
(***************************************************************************)
\* [{"id":1,"name":"A"},{"id":2,"name":null}]
TextScenario ==
  <<"[","{","\"","i","d","\"",":","1",",","\"","n","a","m","e","\"",":","\"",
    "A","\"","}",",","{","\"","i","d","\"",":","2",",","\"","n","a","m",
    "e","\"",":","n","u","l","l","}","]">>

\* a CSV text of three rows: id / 1 / 2 / 1
TextCsvDup ==
  <<"i","d","\n","1","\n","2","\n","1">>

\* a CSV text whose only data line has one field too many
TextCsvDropped ==
  <<"i","d","\n","x",",","y">>

\* a header line alone
TextHeaderOnly ==
  <<"i","d">>

(***************************************************************************)
(* State of the Home component.                                            *)
(***************************************************************************)
VARIABLES
  jsonData,          \* the loaded RowSet, or NoData (null)
  sqlTabs,           \* the generated tabs
  activeTab,         \* index of the displayed tab, counted from 0
  batchSize,         \* the batch-size setting
  sqlTemplate,       \* the template text
  batchSizeChanged,  \* the Regenerate button is offered
  isLoading,
  errors,            \* the displayed error messages
  closureBatchSize,  \* the batchSize that generateSqlScript's closure reads
  pc,                \* "idle", or "batchLoop" inside a batch loop that
                     \* does not end
  manualData,        \* the text of the paste area
  reading,           \* the dropped files whose read has not finished, in
                     \* the order of the drops
  fileName           \* the name shown for the loaded data

vars ==
  <<jsonData, sqlTabs, activeTab, batchSize, sqlTemplate, batchSizeChanged,
    isLoading, errors, closureBatchSize, pc, manualData, reading,
    fileName>>

\* jsonData is null, or an array of rows
NoData == [loaded |-> FALSE, rows |-> <<>>]

Loaded(rows) == [loaded |-> TRUE, rows |-> rows]

\* the batch sizes the expansion is run with
BatchSizes == ((-1)..MaxBatchSize) \cup {DefaultBatchSize}

\* the numbers typed into the batch-size input (0 is an emptied field)
PageBatchSizes == 0..MaxPageBatchSize

\* the texts and templates used by the page-level specification
PageTexts == {TextScenario, TextCsvDropped}

PageTemplates == {TplInsert, TplAggregate, TplNoClause, TplBlank}

\* the state once the mount effects have run with no saved template: the
\* default template, and the saved batch size or 1000
Init ==
  /\ jsonData = NoData
  /\ sqlTabs = <<>>
  /\ activeTab = 0
  /\ batchSize \in {1, DefaultBatchSize}
  /\ sqlTemplate = DefaultTemplate
  /\ batchSizeChanged = FALSE
  /\ isLoading = FALSE
  /\ errors = <<>>
  /\ closureBatchSize = batchSize
  /\ pc = "idle"
  /\ manualData = <<>>
  /\ reading = <<>>
  /\ fileName = <<>>

\* generateSqlScript is memoized on [jsonData, sqlTemplate] and calls the
\* generateSqlTabs of the render that memoized it, which is memoized on
\* [jsonData, batchSize]: the batch size it reads is the one of the last
\* render in which jsonData or sqlTemplate changed.
Recapture(changed) ==
  closureBatchSize' = IF changed THEN batchSize' ELSE closureBatchSize

\* the paste area's onChange
setManualData(text) ==
  /\ pc = "idle"
  /\ manualData' = text
  /\ UNCHANGED <<jsonData, sqlTabs, activeTab, batchSize, sqlTemplate,
                 batchSizeChanged, isLoading, errors, closureBatchSize, pc,
                 reading,
                 fileName>>

\* a load that leaves the variant list as it was
LoadKeepingTabs(outcome, thrown, shown) ==
  /\ IF ~outcome.threw /\ validateJson(outcome.data) = <<>>
     THEN /\ jsonData' = Loaded(outcome.data.items)
          /\ errors' = shown
     ELSE /\ jsonData' = NoData
          /\ errors' = IF outcome.threw THEN <<thrown>>
                       ELSE validateJson(outcome.data)
  /\ UNCHANGED <<sqlTabs, activeTab>>
  /\ isLoading' = FALSE
  /\ Recapture(jsonData' # NoData \/ jsonData # NoData)

\* the try / catch / finally shared by processManualData and reader.onload,
\* on the outcome of the parse; thrown is the message of the catch branch,
\* shown is the error list as the try block is entered
Load(outcome, thrown, shown) ==
  /\ IF ~outcome.threw /\ validateJson(outcome.data) = <<>>
     THEN /\ jsonData' = Loaded(outcome.data.items)
          /\ sqlTabs' = <<>>
          /\ activeTab' = 0
          /\ errors' = shown
     ELSE /\ jsonData' = NoData
          /\ errors' = IF outcome.threw THEN <<thrown>>
                       ELSE validateJson(outcome.data)
          /\ UNCHANGED <<sqlTabs, activeTab>>
  /\ isLoading' = FALSE
  \* a parsed array is a new object: jsonData changes unless it stays null
  /\ Recapture(jsonData' # NoData \/ jsonData # NoData)

\* processManualData, the Process Data button's onClick (disabled while
\* loading or while the paste area is blank)
processManualData ==
  /\ pc = "idle"
  /\ ~isLoading
  /\ ~trimIsEmpty(manualData)
  /\ fileName' = <<"M","a","n","u","a","l"," ","I","n","p","u","t">>
  /\ UNCHANGED <<batchSize, sqlTemplate, batchSizeChanged, pc, manualData,
                 reading>>
  /\ Load(parseDataText(manualData), "Invalid data format", <<>>)

\* onDrop(acceptedFiles): the read of the file is started
onDrop(file) ==
  /\ pc = "idle"
  /\ Len(reading) < MaxReads
  /\ isLoading' = TRUE
  /\ errors' = <<>>
  /\ reading' = Append(reading, file)
  /\ fileName' = file.name
  /\ UNCHANGED <<jsonData, sqlTabs, activeTab, batchSize, sqlTemplate,
                 batchSizeChanged, closureBatchSize, pc, manualData>>

\* reader.onload of the read at position index of reading
onload(index) ==
  /\ pc = "idle"
  /\ index \in 1..Len(reading)
  /\ reading' = [i \in 1..(Len(reading) - 1) |->
                   IF i < index THEN reading[i] ELSE reading[i + 1]]
  /\ UNCHANGED <<batchSize, sqlTemplate, batchSizeChanged, pc, manualData,
                 fileName>>
  /\ Load(parseFile(reading[index].name, reading[index].text),
          "Invalid file format", errors)

\* the template textarea's onChange
setSqlTemplate(template) ==
  /\ pc = "idle"
  /\ jsonData # NoData
  /\ sqlTemplate' = template
  /\ UNCHANGED <<jsonData, sqlTabs, activeTab, batchSize, batchSizeChanged,
                 isLoading, errors, pc, manualData, reading,
                 fileName>>
  /\ Recapture(template # sqlTemplate)

HasBatchTab == \E i \in 1..Len(sqlTabs) : sqlTabs[i].type = "batch"

\* the batch-size input's onChange, rendered while a batch tab is shown
setBatchSize(size) ==
  /\ pc = "idle"
  /\ jsonData # NoData
  /\ HasBatchTab
  /\ batchSize' = size
  /\ batchSizeChanged' = TRUE
  /\ UNCHANGED <<jsonData, sqlTabs, activeTab, sqlTemplate, isLoading,
                 errors, closureBatchSize, pc, manualData, reading,
                 fileName>>

\* a tab button's onClick
clickTab(index) ==
  /\ pc = "idle"
  /\ jsonData # NoData
  /\ index < Len(sqlTabs)
  /\ activeTab' = index
  /\ UNCHANGED <<jsonData, sqlTabs, batchSize, sqlTemplate, batchSizeChanged,
                 isLoading, errors, closureBatchSize, pc, manualData,
                 reading,
                 fileName>>

\* the run ends in an uncaught TypeError: the updates made before it
\* (setIsLoading(true), setErrors([]), setBatchSizeChanged(false)) stay
Thrown ==
  /\ isLoading' = TRUE
  /\ errors' = <<>>
  /\ batchSizeChanged' = FALSE
  /\ UNCHANGED <<sqlTabs, activeTab, pc>>

\* a run that leaves the active tab where it was
ExpandKeepingTab ==
  IF Len(doubleCurlyMatches(sqlTemplate)) > 0
  THEN IF HasNullRow(jsonData.rows) THEN Thrown
       ELSE /\ sqlTabs' = aggregateTabs(sqlTemplate, jsonData.rows)
            /\ errors' = <<>>
            /\ activeTab' = activeTab
            /\ isLoading' = FALSE
            /\ batchSizeChanged' = FALSE
            /\ pc' = pc
  ELSE LET result == generateSqlTabs(sqlTemplate, jsonData.rows, closureBatchSize)
       IN  IF result.kind = "throw" THEN Thrown
           ELSE IF result.kind = "loop"
           THEN /\ pc' = "batchLoop"
                /\ UNCHANGED <<sqlTabs, errors, activeTab, isLoading,
                               batchSizeChanged>>
           ELSE /\ sqlTabs' = IF result.kind = "tabs"
                              THEN result.tabs ELSE sqlTabs
                /\ errors' = IF result.kind = "error"
                             THEN <<CouldNotFindValues>> ELSE <<>>
                /\ activeTab' = activeTab
                /\ isLoading' = FALSE
                /\ batchSizeChanged' = FALSE
                /\ pc' = pc

\* the body of generateSqlScript past its two guards
Expand ==
  IF Len(doubleCurlyMatches(sqlTemplate)) > 0
  THEN IF HasNullRow(jsonData.rows) THEN Thrown
       ELSE /\ sqlTabs' = aggregateTabs(sqlTemplate, jsonData.rows)
            /\ errors' = <<>>
            /\ activeTab' = 0
            /\ isLoading' = FALSE
            /\ batchSizeChanged' = FALSE
            /\ pc' = pc
  ELSE LET result == generateSqlTabs(sqlTemplate, jsonData.rows, closureBatchSize)
       IN  IF result.kind = "throw" THEN Thrown
           ELSE IF result.kind = "loop"
           THEN /\ pc' = "batchLoop"
                /\ UNCHANGED <<sqlTabs, errors, activeTab, isLoading,
                               batchSizeChanged>>
           ELSE /\ sqlTabs' = IF result.kind = "tabs"
                              THEN result.tabs ELSE sqlTabs
                /\ errors' = IF result.kind = "error"
                             THEN <<CouldNotFindValues>> ELSE <<>>
                /\ activeTab' = 0
                /\ isLoading' = FALSE
                /\ batchSizeChanged' = FALSE
                /\ pc' = pc

\* generateSqlScript, the Generate button's onClick
generateSqlScript ==
  /\ pc = "idle"
  /\ ~isLoading
  /\ IF jsonData = NoData
     THEN /\ errors' = <<"JSON data is not loaded">>
          /\ UNCHANGED <<sqlTabs, activeTab, isLoading, batchSizeChanged, pc>>
     ELSE IF validateSqlTemplate(sqlTemplate) # <<>>
     THEN /\ errors' = validateSqlTemplate(sqlTemplate)
          /\ UNCHANGED <<sqlTabs, activeTab, isLoading, batchSizeChanged, pc>>
     ELSE Expand
  /\ UNCHANGED <<jsonData, batchSize, sqlTemplate, closureBatchSize,
                 manualData, reading,
                 fileName>>

\* the Regenerate button's onClick: generateSqlScript(), then
\* setBatchSizeChanged(false)
regenerate ==
  /\ pc = "idle"
  /\ jsonData # NoData
  /\ HasBatchTab
  /\ batchSizeChanged
  /\ IF validateSqlTemplate(sqlTemplate) # <<>>
     THEN /\ errors' = validateSqlTemplate(sqlTemplate)
          /\ batchSizeChanged' = FALSE
          /\ UNCHANGED <<sqlTabs, activeTab, isLoading, pc>>
     ELSE Expand
  /\ UNCHANGED <<jsonData, batchSize, sqlTemplate, closureBatchSize,
                 manualData, reading,
                 fileName>>

\* the page with its data pasted
Next ==
  \/ \E text \in PageTexts : setManualData(text)
  \/ processManualData
  \/ \E template \in PageTemplates : setSqlTemplate(template)
  \/ \E size \in PageBatchSizes : setBatchSize(size)
  \/ \E index \in 0..5 : clickTab(index)
  \/ generateSqlScript
  \/ regenerate

Spec == Init /\ [][Next]_vars

(***************************************************************************)
(* Loading: data pasted or dropped as files, and expansion runs with the   *)
(* default template.                                                       *)
(***************************************************************************)
FileRowsCsv == [name |-> <<"r","o","w","s",".","c","s","v">>, text |-> TextCsvDup]

FileDataJson ==
  [name |-> <<"d","a","t","a",".","j","s","o","n">>, text |-> TextHeaderOnly]

LoadTexts == {TextScenario, TextCsvDropped}

LoadFiles == {FileRowsCsv, FileDataJson}

NextLoad ==
  \/ \E text \in LoadTexts : setManualData(text)
  \/ processManualData
  \/ \E file \in LoadFiles : onDrop(file)
  \/ \E index \in 1..MaxReads : onload(index)
  \/ generateSqlScript
  \/ \E index \in 0..2 : clickTab(index)

SpecLoad == Init /\ [][NextLoad]_vars

(***************************************************************************)
(* Parsing: one text, pasted or dropped under each of the file names, is   *)
(* loaded.                                                                 *)
(***************************************************************************)
\* [{"id":1},null]
TextNullRow ==
  <<"[","{","\"","i","d","\"",":","1","}",",","n","u","l","l","]">>

TextNumber == <<"5">>

TextNull == <<"n","u","l","l">>

\* {"id":1}
TextObject == <<"{","\"","i","d","\"",":","1","}">>

\* {"collectPoints":[{"id":1}]}
TextCollectPoints ==
  <<"{","\"","c","o","l","l","e","c","t","P","o","i","n","t","s","\"",":","[",
    "{","\"","i","d","\"",":","1","}","]","}">>

\* {"items":[{"id":1}]}
TextItems ==
  <<"{","\"","i","t","e","m","s","\"",":","[","{","\"","i","d","\"",":","1",
    "}","]","}">>

TextEmptyArray == <<"[","]">>

TextNumbers == <<"[","1","]">>

TextNested == <<"[","[","1","]","]">>

\* [{"id":1}, -- cut short
TextMalformed == <<"[","{","\"","i","d","\"",":","1","}",",">>

\* CSV: an empty field, a line one field short, a blank line, the word null
TextCsv ==
  <<"i","d",",","n","a","m","e","\n","1",",","A","\n","2",",","\n","3","\n",
    "\n","4",",","n","u","l","l","\n">>

\* CSV: a quoted comma, spaces around the fields
TextCsvQuoted ==
  <<"i","d",",","n","a","m","e","\n","7",",","\"","a",",","b","\"","\n"," ",
    "8"," ",","," ","N","U","L","L"," ">>

\* TSV: lines whose first and whose last field is empty
TextTsv ==
  <<"i","d","\t","n","a","m","e","\n","1","\t","A","\n","\t","2","\n","3",
    "\t","\n","4","\t","x"," ","y">>

\* TSV: an empty field in the middle, a blank line
TextTsvMiddle ==
  <<"a","\t","b","\t","c","\n","1","\t","\t","3","\n","\n","4","\t","5","\t",
    "6">>

\* the tokens whose conversion is examined, each the only field of a text
\* with the header v
Tokens ==
  {<<"1","2">>, <<"-","3">>, <<"n","u","l","l">>, <<"'","N","u","l","l","'">>,
   <<"'"," ","'">>, <<"I","n","f","i","n","i","t","y">>, <<"a","b","c">>,
   <<"'","x","'">>, <<"'","'">>, <<"x"," ","y">>}

TokenText(token) == <<"v", "\n">> \o token

ParseTexts ==
  {TextScenario, TextNullRow, TextNumber, TextNull, TextObject,
   TextCollectPoints, TextItems, TextEmptyArray, TextNumbers, TextNested,
   TextMalformed, TextCsv, TextCsvQuoted, TextCsvDup, TextCsvDropped,
   TextHeaderOnly, TextTsv, TextTsvMiddle}
    \cup {TokenText(token) : token \in Tokens}

FileNames ==
  {<<"r",".","c","s","v">>, <<"Q",".","T","S","V">>, <<"n",".","t","x","t">>,
   <<"d",".","j","s","o","n">>}

InitParse ==
  /\ jsonData = NoData
  /\ sqlTabs = <<>>
  /\ activeTab = 0
  /\ batchSize = DefaultBatchSize
  /\ sqlTemplate = DefaultTemplate
  /\ batchSizeChanged = FALSE
  /\ isLoading = FALSE
  /\ errors = <<>>
  /\ closureBatchSize = batchSize
  /\ pc = "idle"
  /\ manualData \in ParseTexts
  /\ reading = <<>>
  /\ fileName = <<>>

NextParse ==
  \/ processManualData
  \/ \E name \in FileNames : onDrop([name |-> name, text |-> manualData])
  \/ \E index \in 1..MaxReads : onload(index)
  \/ generateSqlScript

SpecParse == InitParse /\ [][NextParse]_vars

(***************************************************************************)
(* The expansion as a function of (RowSet, template, batch size): every    *)
(* input is loaded, and generateSqlScript runs on it.                      *)
(***************************************************************************)
InitExpand ==
  /\ jsonData \in {Loaded(d) : d \in DataSets}
  /\ sqlTemplate \in Templates
  /\ batchSize \in BatchSizes
  /\ closureBatchSize = batchSize
  /\ sqlTabs = <<>>
  /\ activeTab = 0
  /\ batchSizeChanged = FALSE
  /\ isLoading = FALSE
  /\ errors = <<>>
  /\ pc = "idle"
  /\ manualData = <<>>
  /\ reading = <<>>
  /\ fileName = <<>>

NextExpand == generateSqlScript

SpecExpand == InitExpand /\ [][NextExpand]_vars

\* one more trip round the batch loop entered with a step that is not
\* positive: i < jsonData.length still holds and no state is set
batchLoop ==
  /\ pc = "batchLoop"
  /\ UNCHANGED vars

\* the expansion with its loop: the handler that has entered the loop keeps
\* running, the browser never suspends it
FairSpecExpand == SpecExpand /\ WF_vars(batchLoop)


(***************************************************************************)
(* Properties of the expansion.  Under SpecExpand the inputs never change, *)
(* so in a state with tabs, jsonData, sqlTemplate and closureBatchSize are *)
(* the inputs the tabs were generated from.                                *)
(***************************************************************************)
Rows == jsonData.rows

\* the template holds at least one {{key}} token
AggregateMode ==
  \E i \in 1..Len(sqlTemplate) : DoubleCurlyEnd(sqlTemplate, i) # 0

\* the template is expanded by the VALUES branch of per-row mode
ValuesMode ==
  /\ ~AggregateMode
  /\ includes(toLowerCase(sqlTemplate), ValuesWord)
  /\ valuesMatch(sqlTemplate).found
  /\ valuesMatch(sqlTemplate).group # <<>>

\* the template is expanded by the branch without VALUES of per-row mode
FreeformMode ==
  /\ ~AggregateMode
  /\ ~includes(toLowerCase(sqlTemplate), ValuesWord)

RowTemplate == valuesMatch(sqlTemplate).group

Prefix == insertStatement(sqlTemplate, valuesMatch(sqlTemplate).index)

TabIndexes(type) == {i \in 1..Len(sqlTabs) : sqlTabs[i].type = type}

RowCountOf(type) ==
  IF TabIndexes(type) = {} THEN 0
  ELSE sqlTabs[CHOOSE i \in TabIndexes(type) : TRUE].rowCount

\* the SQL literal a value is specified to be rendered as
ExpectedLiteral(value) ==
  CASE value.t = "string" -> <<"'">> \o DoubleQuotes(value.s) \o <<"'">>
    [] value.t = "number" -> NumberToString(value.n)
    [] OTHER -> NullText

RECURSIVE ExpectedRowFrom(_, _, _)
\* the text of template from position i on, each {key} token replaced, in
\* one pass from left to right, by the literal of the row's value
ExpectedRowFrom(template, row, i) ==
  LET starts == {j \in i..Len(template) : SingleCurlyEnd(template, j) # 0}
  IN  IF starts = {} THEN SubSeq(template, i, Len(template))
      ELSE LET j == CHOOSE j \in starts : \A k \in starts : j <= k
               e == SingleCurlyEnd(template, j)
           IN  SubSeq(template, i, j - 1)
               \o ExpectedLiteral(Lookup(row, rowKey(SubSeq(template, j, e))))
               \o ExpectedRowFrom(template, row, e + 1)

ExpectedRow(template, row) == ExpectedRowFrom(template, row, 1)

\* the keys the row template refers to
ReferencedKeys ==
  LET found == placeholders(RowTemplate)
  IN  {rowKey(found[p]) : p \in 1..Len(found)}

\* the rows in which every referenced key has a value that is not null
CleanRows ==
  {i \in 1..Len(Rows) :
     \A key \in ReferencedKeys :
       Lookup(Rows[i], key).t \in {"number", "string"}}

NullRows == (1..Len(Rows)) \ CleanRows

\* no string of the row set holds a dollar sign or a brace
PlainRows ==
  \A i \in 1..Len(Rows) : \A f \in 1..Len(Rows[i].fields) :
    \A c \in 1..Len(Rows[i].fields[f].value.s) :
      Rows[i].fields[f].value.s[c] \notin {"$", "{", "}"}

\* C1: in per-row mode with a VALUES clause, a referenced field that is
\* null, undefined or missing is rendered as the unquoted literal NULL in
\* the ALL script: ALL is the prefix followed by the rows, each the row
\* template with its tokens replaced by the literals of the row's values.
\* (Stated for row sets whose strings hold no dollar sign or brace.)
C1_NullRenderedAsNULL ==
  (sqlTabs # <<>> /\ ValuesMode /\ PlainRows) =>
    sqlTabs[1].script =
      Prefix \o Join([i \in 1..Len(Rows) |->
                        Parenthesized(ExpectedRow(RowTemplate, Rows[i]))],
                     CommaNewline)

\* C2: in per-row mode with a VALUES clause every row is either clean or
\* null-containing; WITHOUT-NULL is emitted iff a clean row exists and
\* WITH-NULL iff a null-containing row exists, each with the size of its
\* subset as rowCount, and the two counts add up to ALL.rowCount, which is
\* the number of rows.
C2_NullSplitCounts ==
  (sqlTabs # <<>> /\ ValuesMode) =>
    /\ Cardinality(TabIndexes("without-null"))
         = (IF CleanRows # {} THEN 1 ELSE 0)
    /\ Cardinality(TabIndexes("with-null"))
         = (IF NullRows # {} THEN 1 ELSE 0)
    /\ RowCountOf("without-null") = Cardinality(CleanRows)
    /\ RowCountOf("with-null") = Cardinality(NullRows)
    /\ RowCountOf("without-null") + RowCountOf("with-null")
         = sqlTabs[1].rowCount
    /\ sqlTabs[1].type = "all"
    /\ sqlTabs[1].rowCount = Len(Rows)

\* a run that emitted both null-split tabs
C2_Witness ==
  /\ sqlTabs # <<>>
  /\ ValuesMode
  /\ jsonData = Loaded(DataFive)
  /\ RowCountOf("without-null") = 3
  /\ RowCountOf("with-null") = 2

IsBatchTab(tab) == tab.type = "batch"

BatchTabsShown == SelectSeq(sqlTabs, IsBatchTab)

\* the rows of a script: what follows the prefix
Body(script) == SubSeq(script, Len(Prefix) + 1, Len(script))

\* C3: in per-row mode with a VALUES clause and 1 <= batchSize < number of
\* rows, the batch tabs are numbered 1, 2, ... in order, every one holds at
\* most batchSize rows and all but the last exactly batchSize, their row
\* counts add up to the number of rows, and their rows, put one after the
\* other, are the rows of ALL in the original order.  With batchSize >=
\* number of rows there is no batch tab.
C3_BatchesPartitionRows ==
  (sqlTabs # <<>> /\ ValuesMode) =>
    LET size == closureBatchSize
        n == Len(Rows)
        batches == BatchTabsShown
        count == Len(batches)
    IN  IF size >= n THEN count = 0
        ELSE size >= 1 =>
          /\ count = (n + size - 1) \div size
          /\ \A k \in 1..count :
               /\ batches[k].batchNumber = k
               /\ batches[k].rowCount <= size
               /\ batches[k].rowCount >= 1
               /\ k < count => batches[k].rowCount = size
               /\ SubSeq(batches[k].script, 1, Len(Prefix)) = Prefix
          /\ batches[count].rowCount = n - size * (count - 1)
          /\ sqlTabs[1].script =
               Prefix \o Join([k \in 1..count |-> Body(batches[k].script)],
                              CommaNewline)

\* five rows in batches of two: 2, 2 and 1 rows
C3_Witness ==
  /\ ValuesMode
  /\ jsonData = Loaded(DataFive)
  /\ closureBatchSize = 2
  /\ Len(BatchTabsShown) = 3
  /\ BatchTabsShown[3].rowCount = 1

\* position of a tab in the fixed order ALL, WITHOUT-NULL, WITH-NULL,
\* Batch-1, Batch-2, ...
Rank(tab) ==
  CASE tab.type = "all" -> 0
    [] tab.type = "without-null" -> 1
    [] tab.type = "with-null" -> 2
    [] OTHER -> 2 + tab.batchNumber

\* C4: the tabs are always in the order ALL, WITHOUT-NULL, WITH-NULL,
\* Batch-1, Batch-2, ...: ALL is first, no tab comes before a tab of lower
\* rank, and the batch numbers are those of the fixed order.
C4_FixedTabOrder ==
  sqlTabs # <<>> =>
    /\ sqlTabs[1].type = "all"
    /\ \A i \in 1..Len(sqlTabs) : \A j \in 1..Len(sqlTabs) :
         i < j => Rank(sqlTabs[i]) < Rank(sqlTabs[j])
    /\ \A k \in 1..Len(BatchTabsShown) : BatchTabsShown[k].batchNumber = k

\* a run that emitted all four kinds of tab
C4_Witness ==
  /\ TabIndexes("without-null") # {}
  /\ TabIndexes("with-null") # {}
  /\ Len(BatchTabsShown) >= 2
  /\ Len(sqlTabs) = 3 + Len(BatchTabsShown)


RECURSIVE ExpectedValuesFrom(_, _, _)
\* the values of key over the rows from row i on: null and undefined
\* dropped, a value kept at its first occurrence only
ExpectedValuesFrom(data, key, i) ==
  IF i > Len(data) THEN <<>>
  ELSE (IF /\ Lookup(data[i], key).t \in {"number", "string"}
           /\ \A j \in 1..(i - 1) : Lookup(data[j], key) # Lookup(data[i], key)
        THEN <<ExpectedLiteral(Lookup(data[i], key))>> ELSE <<>>)
       \o ExpectedValuesFrom(data, key, i + 1)

ExpectedList(data, key) == Join(ExpectedValuesFrom(data, key, 1), <<",">>)

RECURSIVE ExpectedAggregateFrom(_, _, _)
\* the text of template from position i on, each {{key}} token replaced, in
\* one pass from left to right, by the list of the key's values
ExpectedAggregateFrom(template, data, i) ==
  LET starts == {j \in i..Len(template) : DoubleCurlyEnd(template, j) # 0}
  IN  IF starts = {} THEN SubSeq(template, i, Len(template))
      ELSE LET j == CHOOSE j \in starts : \A k \in starts : j <= k
               e == DoubleCurlyEnd(template, j)
           IN  SubSeq(template, i, j - 1)
               \o ExpectedList(data, SubSeq(template, j + 2, e - 2))
               \o ExpectedAggregateFrom(template, data, e + 1)

ExpectedAggregate(template, data) == ExpectedAggregateFrom(template, data, 1)

\* the keys of the {{key}} tokens of the template
AggregateKeys ==
  {SubSeq(sqlTemplate, j + 2, DoubleCurlyEnd(sqlTemplate, j) - 2) :
     j \in {i \in 1..Len(sqlTemplate) : DoubleCurlyEnd(sqlTemplate, i) # 0}}

KeyHasValue(key) ==
  \E i \in 1..Len(Rows) : Lookup(Rows[i], key).t \in {"number", "string"}

HasAllAggregateKeys(row) ==
  \A key \in AggregateKeys : Lookup(row, key).t \in {"number", "string"}

\* the rows in which every aggregate key has a value that is not null
FullRows == SelectSeq(Rows, HasAllAggregateKeys)

\* C5: in aggregate mode the ALL script is the template with each {{key}}
\* token replaced by the comma-joined literals of the key's values over all
\* rows (null and undefined dropped, first occurrences kept, strings quoted
\* with quotes doubled), and ALL.rowCount is the number of rows.
C5_AggregateAllScript ==
  (sqlTabs # <<>> /\ AggregateMode) =>
    /\ sqlTabs[1].type = "all"
    /\ sqlTabs[1].script = ExpectedAggregate(sqlTemplate, Rows)
    /\ sqlTabs[1].rowCount = Len(Rows)

\* C6: in aggregate mode WITHOUT-NULL is produced iff every aggregate key
\* of the template has a non-null value in some row.
C6_WithoutNullIffEveryKey ==
  (sqlTabs # <<>> /\ AggregateMode) =>
    (TabIndexes("without-null") # {} <=> \A key \in AggregateKeys : KeyHasValue(key))

\* C7: in aggregate mode the value lists of the WITHOUT-NULL script are
\* built from the rows in which all aggregate keys are non-null, and its
\* rowCount is the number of those rows.  (Stated for the runs in which
\* every aggregate key has a value and no string holds a dollar sign or a
\* brace.)
C7_WithoutNullExcludesRows ==
  (/\ sqlTabs # <<>>
   /\ AggregateMode
   /\ PlainRows
   /\ \A key \in AggregateKeys : KeyHasValue(key)
   /\ TabIndexes("without-null") # {}) =>
    LET tab == sqlTabs[CHOOSE i \in TabIndexes("without-null") : TRUE]
    IN  /\ tab.script = ExpectedAggregate(sqlTemplate, FullRows)
        /\ tab.rowCount = Len(FullRows)

FirstAggregateStart ==
  CHOOSE i \in 1..Len(sqlTemplate) :
    /\ DoubleCurlyEnd(sqlTemplate, i) # 0
    /\ \A j \in 1..(i - 1) : DoubleCurlyEnd(sqlTemplate, j) = 0

\* the end of the last {{key}} token the left-to-right scan finds
LastAggregateEnd ==
  LET ends == {DoubleCurlyEnd(sqlTemplate, i) : i \in 1..Len(sqlTemplate)}
  IN  CHOOSE e \in ends : \A f \in ends : f <= e

\* the text before the first and after the last aggregate token
TextBeforeAggregates == SubSeq(sqlTemplate, 1, FirstAggregateStart - 1)

TextAfterAggregates ==
  SubSeq(sqlTemplate, LastAggregateEnd + 1, Len(sqlTemplate))

EndsWith(s, p) == StartsWithAt(s, p, Len(s) - Len(p) + 1)

\* number of positions of s at which p occurs
Occurrences(s, p) == Cardinality({i \in 1..Len(s) : StartsWithAt(s, p, i)})

\* C8: a template is processed in one mode.  With a {{key}} token only ALL
\* and WITHOUT-NULL are produced, whatever the batch size and the nulls of
\* the rows, and the text around the aggregate tokens, per-row {key} tokens
\* included, is in the scripts as it is in the template.  Without one, the
\* template is expanded once per row: the ALL script holds one row
\* separator less than there are rows.
C8_ExactlyOneMode ==
  sqlTabs # <<>> =>
    IF AggregateMode
    THEN /\ Len(sqlTabs) <= 2
         /\ \A i \in 1..Len(sqlTabs) :
              /\ sqlTabs[i].type \in {"all", "without-null"}
              /\ StartsWithAt(sqlTabs[i].script, TextBeforeAggregates, 1)
              /\ EndsWith(sqlTabs[i].script, TextAfterAggregates)
    ELSE /\ sqlTabs[1].rowCount = Len(Rows)
         /\ ValuesMode =>
              Occurrences(sqlTabs[1].script, <<",", "\n", "(">>)
                = Len(Rows) - 1
         /\ FreeformMode =>
              Occurrences(sqlTabs[1].script, <<"\n">>)
                = (Len(Rows) - 1)
                    + Len(Rows) * Occurrences(sqlTemplate, <<"\n">>)

\* an aggregate run on a template that also holds {name}, on rows with a
\* null and a batch size below the number of rows
C8_Witness ==
  /\ sqlTabs # <<>>
  /\ sqlTemplate = TplMixed
  /\ jsonData = Loaded(DataScenario)
  /\ closureBatchSize = 1
  /\ Occurrences(sqlTabs[1].script, <<"{", "n", "a", "m", "e", "}">>) = 1

\* the rows in which every key the template refers to has a value
CleanRowsOf(template) ==
  LET found == placeholders(template)
      HasValues(row) ==
        \A p \in 1..Len(found) :
          Lookup(row, rowKey(found[p])).t \in {"number", "string"}
  IN  SelectSeq(Rows, HasValues)

\* C9: a string substituted for a {key} token is emitted as a quote, the
\* string with its quotes doubled, and a quote, whatever the string holds:
\* the rows without null are the row template with each token replaced by
\* the literal of the row's value.
C9_StringLiteralExact ==
  /\ (sqlTabs # <<>> /\ ValuesMode /\ TabIndexes("without-null") # {}) =>
       LET tab == sqlTabs[CHOOSE i \in TabIndexes("without-null") : TRUE]
           clean == CleanRowsOf(RowTemplate)
       IN  tab.script =
             Prefix \o Join([i \in 1..Len(clean) |->
                               Parenthesized(ExpectedRow(RowTemplate, clean[i]))],
                            CommaNewline)
  /\ (sqlTabs # <<>> /\ FreeformMode
        /\ Len(CleanRowsOf(sqlTemplate)) = Len(Rows)) =>
       sqlTabs[1].script =
         Join([i \in 1..Len(Rows) |-> ExpectedRow(sqlTemplate, Rows[i])],
              <<"\n">>)

(***************************************************************************)
(* Properties of the page.                                                 *)
(***************************************************************************)
\* the template validator rejects the template
RejectedTemplate(template) ==
  \/ trimIsEmpty(template)
  \/ /\ \A i \in 1..Len(template) : DoubleCurlyEnd(template, i) = 0
     /\ includes(toLowerCase(template), InsertIntoWords)
     /\ ~valuesMatch(template).found

\* C10: a generateSqlScript call with no RowSet loaded, or with a template
\* the validator rejects, sets the error list and leaves the tabs and the
\* active tab as they were; an empty or whitespace-only template gives
\* exactly one error.
C10_FailedRunKeepsTabs ==
  [][(generateSqlScript
        /\ (jsonData = NoData \/ RejectedTemplate(sqlTemplate)))
       => /\ sqlTabs' = sqlTabs
          /\ activeTab' = activeTab
          /\ errors' # <<>>
          /\ (jsonData # NoData /\ trimIsEmpty(sqlTemplate))
               => Len(errors') = 1]_vars

\* the empty-template error is shown next to tabs generated before, the
\* second tab still active
C10_Witness ==
  /\ errors = <<"SQL template cannot be empty">>
  /\ sqlTemplate = TplBlank
  /\ Len(sqlTabs) >= 2
  /\ activeTab = 1


\* the text holds the word VALUES in any case, then optional whitespace and
\* an opening parenthesis, with a closing parenthesis somewhere after it
HasValuesClause(template) ==
  \E i \in 1..Len(template) : \E open \in (i + 6)..Len(template) :
    /\ toLowerCase(SubSeq(template, i, i + 5)) = ValuesWord
    /\ \A k \in (i + 6)..(open - 1) : template[k] \in Whitespace
    /\ template[open] = "("
    /\ \E close \in (open + 1)..Len(template) : template[close] = ")"

HasAggregateToken(template) ==
  \E i \in 1..Len(template) : DoubleCurlyEnd(template, i) # 0

\* the errors the template validator is specified to return
ExpectedTemplateErrors(template) ==
  LET lower == toLowerCase(template)
  IN  IF \A i \in 1..Len(template) : template[i] \in Whitespace
      THEN <<"SQL template cannot be empty">>
      ELSE IF HasAggregateToken(template) THEN <<>>
      ELSE IF ~includes(lower, InsertIntoWords) THEN <<>>
      ELSE (IF includes(lower, ValuesWord) THEN <<>>
            ELSE <<"INSERT statements must contain 'VALUES' clause">>)
           \o (IF HasValuesClause(template) THEN <<>>
               ELSE <<"Invalid VALUES clause format. Use: VALUES ({placeholder})">>)

\* C11: a generateSqlScript call on a loaded RowSet reports exactly the
\* errors of the template validator -- one for a blank template, none for a
\* template with a {{key}} token, the missing-VALUES and the VALUES-format
\* errors for a template with INSERT INTO, none otherwise -- and only a
\* template without such an error is expanded.
C11_TemplateValidator ==
  [][(generateSqlScript /\ jsonData # NoData)
       => IF ExpectedTemplateErrors(sqlTemplate) # <<>>
          THEN /\ errors' = ExpectedTemplateErrors(sqlTemplate)
               /\ sqlTabs' = sqlTabs
          ELSE /\ errors' \in {<<>>, <<CouldNotFindValues>>}
               /\ (HasAggregateToken(sqlTemplate) => sqlTabs' # <<>>)]_vars

\* both INSERT INTO errors are reported for a template without VALUES
C11_Witness ==
  /\ sqlTemplate = TplInsertOnly
  /\ jsonData # NoData
  /\ Len(errors) = 2

\* the parse threw, or validateJson rejected what it returned
LoadFails(outcome) == outcome.threw \/ validateJson(outcome.data) # <<>>

\* C12: a processManualData call or a file read whose parse or validation
\* fails reports the failure in the error list and leaves the loaded RowSet
\* and the generated variants as they were.
C12_FailedLoadKeepsState ==
  [][/\ processManualData /\ LoadFails(parseDataText(manualData))
          => errors' # <<>> /\ jsonData' = jsonData /\ sqlTabs' = sqlTabs
     /\ \A index \in 1..MaxReads :
          onload(index)
          /\ LoadFails(parseFile(reading[index].name, reading[index].text))
          => errors' # <<>> /\ jsonData' = jsonData /\ sqlTabs' = sqlTabs]_vars

\* C13: a successful load replaces the loaded RowSet by the parsed one,
\* empties the variant list and resets the active tab to 0; so whenever a
\* RowSet is loaded and variants are shown, the variants are exactly those of
\* one expansion of the loaded RowSet.
C13_VariantsOfLoadedRowSet ==
  /\ [](jsonData # NoData /\ sqlTabs # <<>>
          => sqlTabs
               = generateSqlTabs(sqlTemplate, jsonData.rows, batchSize).tabs)
  /\ [][/\ processManualData /\ ~LoadFails(parseDataText(manualData))
             => /\ jsonData'
                     = Loaded(parseDataText(manualData).data.items)
                /\ sqlTabs' = <<>>
                /\ activeTab' = 0
        /\ \A index \in 1..MaxReads :
             onload(index)
             /\ ~LoadFails(parseFile(reading[index].name,
                                     reading[index].text))
             => /\ jsonData'
                     = Loaded(parseFile(reading[index].name,
                                        reading[index].text).data.items)
                /\ sqlTabs' = <<>>
                /\ activeTab' = 0]_vars

\* variants of the pasted rows are shown, a tab past the first is active and
\* a dropped file is still being read
C13_Witness ==
  /\ jsonData = Loaded(DataScenario)
  /\ sqlTabs # <<>>
  /\ activeTab > 0
  /\ reading # <<>>

\* C14: a Regenerate click after a batch-size change, on a template with a
\* VALUES clause and a batch size of at least 1, leaves batch variants that
\* are chunks of the batch size now set: ceil(rows / batchSize) of them when
\* batchSize < rows and none otherwise, each of at most batchSize rows.
C14_RegenerateUsesNewBatchSize ==
  [][(regenerate /\ ValuesMode /\ batchSize >= 1)
       => LET n == Len(Rows)
              batches == SelectSeq(sqlTabs', IsBatchTab)
          IN  /\ Len(batches) = IF batchSize < n
                                THEN (n + batchSize - 1) \div batchSize
                                ELSE 0
              /\ \A k \in 1..Len(batches) :
                   batches[k].rowCount <= batchSize]_vars

\* C15: the variant list a run leaves is a function of the loaded RowSet,
\* the template and the batch size alone: on a template with a VALUES clause
\* and a batch size of at least 1, every run, whatever preceded it, leaves
\* the list that a first run with these three leaves.
C15_RunIsFunctionOfInputs ==
  [][((generateSqlScript \/ regenerate)
        /\ jsonData # NoData /\ ValuesMode /\ batchSize >= 1)
       => sqlTabs'
            = generateSqlTabs(sqlTemplate, Rows, batchSize).tabs]_vars

IsCsvName(name) == HasExtension(name, <<".","c","s","v">>)

IsTsvName(name) ==
  HasExtension(name, <<".","t","s","v">>)
    \/ HasExtension(name, <<".","t","x","t">>)

\* the fields of a line of delimited text as it stands
FieldsOf(line, tabbed) ==
  IF tabbed THEN split(line, "\t") ELSE parseCsvLine(line)

\* the header names of a delimited text
HeaderOf(text, tabbed) ==
  LET fields == FieldsOf(split(text, "\n")[1], tabbed)
  IN  [h \in 1..Len(fields) |-> removeQuotes(trim(fields[h]))]

\* the non-blank data lines with as many fields as the header, in order
MatchingLines(text, tabbed) ==
  LET lines == split(text, "\n")
      Matches(line) ==
        /\ trim(line) # <<>>
        /\ Len(FieldsOf(line, tabbed)) = Len(FieldsOf(lines[1], tabbed))
  IN  SelectSeq(Tail(lines), Matches)

KeysOf(row) == {row.fields[i].key : i \in 1..Len(row.fields)}

\* C16: a read of a .csv, .tsv or .txt file yields one row per non-blank data
\* line that has as many fields as the header, in the order of the lines;
\* every row has exactly the header names as keys and holds, under each, the
\* converted field, null for an empty one, an empty first or last field of a
\* tab-separated line included.
C16_RowPerMatchingLine ==
  [][\A index \in 1..MaxReads :
       onload(index)
       /\ (IsCsvName(reading[index].name) \/ IsTsvName(reading[index].name))
       => LET text == reading[index].text
              tabbed == ~IsCsvName(reading[index].name)
              header == HeaderOf(text, tabbed)
              expected == MatchingLines(text, tabbed)
              rows == jsonData'.rows
          IN  /\ Len(rows) = Len(expected)
              /\ \A i \in 1..Len(rows) :
                   /\ KeysOf(rows[i]) = {header[h] : h \in 1..Len(header)}
                   /\ \A h \in 1..Len(header) :
                        LET field == FieldsOf(expected[i], tabbed)[h]
                        IN  /\ Lookup(rows[i], header[h])
                                 = IF tabbed THEN tsvValue(field)
                                   ELSE csvValue(trim(field))
                            /\ trim(field) = <<>>
                                 => Lookup(rows[i], header[h]) = Null]_vars

\* the value of a token as the coercion rule gives it: quotes stripped (CSV
\* only) and whitespace trimmed; then null for the empty text and for the
\* word null, the number for a decimal numeral, the text otherwise
ExpectedValue(token, tabbed) ==
  LET text == IF tabbed THEN trim(token)
              ELSE trim(removeSurroundingQuotes(trim(token)))
      signed == text # <<>> /\ text[1] \in {"+", "-"}
      body == IF signed THEN Tail(text) ELSE text
  IN  IF text = <<>> \/ toLowerCase(text) = <<"n","u","l","l">> THEN Null
      ELSE IF IsDigits(body)
      THEN Num(IF text[1] = "-" THEN 0 - DigitsValue(body)
               ELSE DigitsValue(body))
      ELSE Str(text)

\* C17: a read of a .csv, .tsv or .txt file with the header v and one token
\* as its only data line loads one row whose value is the coerced token:
\* null for an empty token or the word null in any case (a CSV token of
\* whitespace between single quotes included), the number for a numeral, and
\* the trimmed text for anything else, Infinity included.
C17_TokenCoercion ==
  [][\A index \in 1..MaxReads : \A token \in Tokens :
       onload(index)
       /\ (IsCsvName(reading[index].name) \/ IsTsvName(reading[index].name))
       /\ reading[index].text = TokenText(token)
       => jsonData'
            = Loaded(<<Obj(<<Field(<<"v">>,
                                   ExpectedValue(token,
                                     ~IsCsvName(reading[index].name)))>>)>>)
    ]_vars

\* the name from its last dot on, in lower case; empty without a dot
ExtensionOf(name) ==
  LET dots == {i \in 1..Len(name) : name[i] = "."}
  IN  IF dots = {} THEN <<>>
      ELSE toLowerCase(SubSeq(name, CHOOSE i \in dots : \A j \in dots : j <= i,
                              Len(name)))

\* what a load leaves as the RowSet, given the outcome of the parser
LoadedFrom(outcome) ==
  IF LoadFails(outcome) THEN NoData ELSE Loaded(outcome.data.items)

\* the outcome of the one parser the extension selects
OutcomeByExtension(name, text) ==
  IF ExtensionOf(name) = <<".","c","s","v">> THEN parseCSV(text)
  ELSE IF ExtensionOf(name) \in {<<".","t","s","v">>, <<".","t","x","t">>}
  THEN parseTSV(text)
  ELSE parseJsonFile(text)

\* the outcome for pasted text: JSON if it parses, else TSV with a tab in
\* the text, else CSV
OutcomeOfPaste(text) ==
  LET json == JSONparse(text)
  IN  IF ~json.threw
      THEN Returned(IF json.data.t = "array" THEN json.data
                    ELSE Arr(<<json.data>>))
      ELSE IF \E i \in 1..Len(text) : text[i] = "\t" THEN parseTSV(text)
      ELSE parseCSV(text)

\* C18: a file read loads what the parser selected by the extension returns
\* (.csv the CSV parser, .tsv or .txt the TSV parser, anything else the JSON
\* parser) and reports a format error when that parser throws; a paste loads
\* the JSON value if the text parses as JSON, and otherwise what the TSV
\* parser returns when the text holds a tab and what the CSV parser returns
\* when it does not.
C18_OneParserChosen ==
  [][/\ \A index \in 1..MaxReads :
          onload(index)
          => LET outcome == OutcomeByExtension(reading[index].name,
                                               reading[index].text)
             IN  /\ jsonData' = LoadedFrom(outcome)
                 /\ outcome.threw => errors' = <<"Invalid file format">>
                 /\ ~outcome.threw /\ LoadFails(outcome)
                      => errors' = validateJson(outcome.data)
     /\ processManualData
          => LET outcome == OutcomeOfPaste(manualData)
             IN  /\ jsonData' = LoadedFrom(outcome)
                 /\ outcome.threw <=> errors' = <<"Invalid data format">>
                 /\ ~outcome.threw /\ LoadFails(outcome)
                      => errors' = validateJson(outcome.data)]_vars

\* the JSON text of two rows was read from a file and refused as a format
\* error: the parser was chosen by the file's name
C18_Witness ==
  /\ manualData = TextScenario
  /\ errors = <<"Invalid file format">>
  /\ jsonData = NoData
  /\ reading = <<>>

\* the RowSet of a JSON document: the array itself, the first array held by
\* a field of an object, or the object as the only row
RowSetOfDocument(doc) ==
  IF doc.t = "array" THEN doc
  ELSE LET arrays == {i \in 1..Len(doc.fields) :
                        doc.fields[i].value.t = "array"}
       IN  IF arrays = {} THEN Arr(<<doc>>)
           ELSE doc.fields[CHOOSE i \in arrays :
                             \A j \in arrays : i <= j].value

\* C19: a read of a file that goes to the JSON parser loads the top-level
\* array of the document, or the array held by a field (of any name) of a
\* top-level object, or the top-level object as a RowSet of one row; a text
\* that is not JSON is reported as a format error.
C19_JsonFileRowSet ==
  [][\A index \in 1..MaxReads :
       onload(index)
       /\ ~IsCsvName(reading[index].name)
       /\ ~IsTsvName(reading[index].name)
       => LET json == JSONparse(reading[index].text)
          IN  IF json.threw
              THEN jsonData' = NoData /\ errors' = <<"Invalid file format">>
              ELSE json.data.t \in {"array", "object"}
                     => jsonData'
                          = LoadedFrom(Returned(RowSetOfDocument(json.data)))
    ]_vars

\* a value that typeof calls an object and that is not null
IsNonNullObject(value) == value.t \in {"object", "array"}

\* the message of the first check a parse result fails, none if it passes
RejectionOf(data) ==
  IF data.t # "array" THEN <<"JSON must be an array of objects">>
  ELSE IF data.items = <<>> THEN <<"JSON array cannot be empty">>
  ELSE IF ~IsNonNullObject(data.items[1])
  THEN <<"Array elements must be objects">>
  ELSE <<>>

\* what a load step does with the result of a parse that returned
RejectedOrLoaded(outcome) ==
  IF RejectionOf(outcome.data) # <<>>
  THEN jsonData' = NoData /\ errors' = RejectionOf(outcome.data)
  ELSE jsonData' = Loaded(outcome.data.items)

\* C20: in every reachable state the loaded RowSet is absent or a non-empty
\* array whose first element is a non-null object; a parse result that is
\* not an array, or is empty, or whose first element is not an object is
\* refused with the message of the first of these checks that fails, and a
\* Generate click then expands nothing.
C20_LoadedRowSetIsValid ==
  /\ [](jsonData = NoData
          \/ (Len(Rows) >= 1 /\ IsNonNullObject(Rows[1])))
  /\ [][/\ processManualData
             => LET outcome == parseDataText(manualData)
                IN  outcome.threw \/ RejectedOrLoaded(outcome)
        /\ \A index \in 1..MaxReads :
             onload(index)
             => LET outcome == parseFile(reading[index].name,
                                         reading[index].text)
                IN  outcome.threw \/ RejectedOrLoaded(outcome)
        /\ jsonData = NoData /\ generateSqlScript
             => sqlTabs' = sqlTabs /\ errors' = <<"JSON data is not loaded">>
       ]_vars

\* the CSV text whose only data line was dropped has been refused as an
\* empty array
C20_Witness ==
  /\ manualData = TextCsvDropped
  /\ jsonData = NoData
  /\ errors = <<"JSON array cannot be empty">>
  /\ ~isLoading


\* C21: the batch loop of a per-row expansion finishes for every batch size,
\* 0 and the negative ones included: a run that has entered the loop leaves
\* it and generateSqlTabs returns.
C21_BatchLoopFinishes == (pc = "batchLoop") ~> (pc = "idle")

\* C22: a Generate click on a loaded RowSet with an accepted template ends
\* with a variant list or an error list, and with isLoading false again,
\* whatever the rows after the first are.
C22_RunEndsNotLoading ==
  [][(generateSqlScript /\ jsonData # NoData
        /\ ~RejectedTemplate(sqlTemplate))
       => /\ ~isLoading'
          /\ (sqlTabs' # <<>> \/ errors' # <<>>)]_vars

\* C23: in every reachable state the active tab index is valid for the
\* variant list shown: 0 when the list is empty, and otherwise at least 0
\* and below the number of variants.
C23_ActiveTabIsValid ==
  IF sqlTabs = <<>> THEN activeTab = 0
  ELSE 0 <= activeTab /\ activeTab < Len(sqlTabs)

\* the batch size was changed while batch variants were shown, and a run
\* with the {{id}} template has since replaced them by fewer variants
C23_Witness ==
  /\ batchSize = 2
  /\ sqlTemplate = TplAggregate
  /\ sqlTabs # <<>>
  /\ Len(sqlTabs) < 3
  /\ errors = <<>>
  /\ activeTab = 0


\* the error list a load of the outcome of a parse shows
ErrorsOf(outcome) ==
  IF outcome.threw THEN <<"Invalid file format">>
  ELSE validateJson(outcome.data)

\* C24: isLoading is not cleared by the end of a read while another read is
\* pending, and when the last pending read ends, in whichever order the
\* reads end, the loaded RowSet and the error list are those of the file
\* dropped last, the one fileName names.
C24_LastDroppedFileWins ==
  [][\A index \in 1..MaxReads :
       onload(index)
       => /\ Len(reading) > 1 => isLoading'
          /\ \A file \in LoadFiles :
               Len(reading) = 1 /\ fileName = file.name
               => LET outcome == parseFile(file.name, file.text)
                  IN  /\ jsonData' = LoadedFrom(outcome)
                      /\ errors' = ErrorsOf(outcome)]_vars

=============================================================================
